---- MODULE Spec2Model ----
(***************************************************************************)
(* Stream-subscription and reconnection manager of CoinWidget              *)
(* (src/src/main/main.ts): the watch-list, the two per-segment WebSocket   *)
(* references, their retry timers and the request-id counter, driven by    *)
(* the IPC handlers of the renderer, the socket callbacks and the timers.  *)
(*                                                                         *)
(* Strings are sequences of one-character strings so that toUpperCase,     *)
(* replace and includes are computed, not assumed.  A socket is a record   *)
(* in the sequence `sockets` (its index is the object's identity); a timer *)
(* is a record in `timers`; the value Null (0) stands for JavaScript null. *)
(* A socket that has delivered its close event is inert and referenced by  *)
(* nothing (onclose clears the reference), so its record keeps only its    *)
(* segment, state and origin: the frames sent on a connection are          *)
(* observable while the connection lives.                                  *)
(***************************************************************************)
EXTENDS Integers, Sequences, FiniteSets, TLC

\* ------------------------------------------------------------------ bounds
MaxSockets == 3        \* sockets ever constructed with new WebSocket(...)
MaxLiveSockets == 2    \* sockets that have not yet delivered their close event
MaxTimers == 2         \* timers ever created with setTimeout(...)
MaxRequestId == 2      \* largest request id that may be put on the wire
MaxTokenPieces == 4    \* pieces a token handed to the symbol normalizer is made of

\* --------------------------------------------------------------- constants
Null == 0
IntentionalCode == 1000
AbnormalCode == 1006
InitialRequestId == 1

\* ----------------------------------------------------------------- strings
LowerChars == <<"a","b","c","d","e","f","g","h","i","j","k","l","m",
                "n","o","p","q","r","s","t","u","v","w","x","y","z">>
UpperChars == <<"A","B","C","D","E","F","G","H","I","J","K","L","M",
                "N","O","P","Q","R","S","T","U","V","W","X","Y","Z">>

OtherChars == {"_", "@", "0", "1", "2", "3", "4", "5", "6", "7", "8", "9"}

\* the characters strings are made of
Chars == {LowerChars[k] : k \in 1..26} \cup {UpperChars[k] : k \in 1..26} \cup OtherChars

\* the upper-case and lower-case form of each character
UpperOf ==
  [c \in Chars |-> IF \E k \in 1..26 : LowerChars[k] = c
                   THEN UpperChars[CHOOSE k \in 1..26 : LowerChars[k] = c]
                   ELSE c]

LowerOf ==
  [c \in Chars |-> IF \E k \in 1..26 : UpperChars[k] = c
                   THEN LowerChars[CHOOSE k \in 1..26 : UpperChars[k] = c]
                   ELSE c]

\* String.prototype.toUpperCase / toLowerCase
ToUpperCase(s) == [i \in 1..Len(s) |-> UpperOf[s[i]]]
ToLowerCase(s) == [i \in 1..Len(s) |-> LowerOf[s[i]]]

\* positions at which pat occurs in s
Occurrences(s, pat) ==
  {i \in 1..(Len(s) - Len(pat) + 1) : SubSeq(s, i, i + Len(pat) - 1) = pat}

\* String.prototype.includes
Includes(s, pat) == Occurrences(s, pat) # {}

\* String.prototype.replace with a string pattern: first occurrence only
ReplaceFirst(s, pat, rep) ==
  IF ~Includes(s, pat) THEN s
  ELSE LET i == CHOOSE j \in Occurrences(s, pat) :
                   \A k \in Occurrences(s, pat) : j <= k
       IN SubSeq(s, 1, i - 1) \o rep \o SubSeq(s, i + Len(pat), Len(s))

\* a replace without the g flag: the first underscore removed
StripUnderscores_First(s) == ReplaceFirst(s, <<"_">>, <<>>)

\* String.prototype.replace(/_/g, ''): every underscore removed
StripUnderscores(s) == SelectSeq(s, LAMBDA c : c # "_")

PERP == <<"P","E","R","P">>
USDT == <<"U","S","D","T">>
TickerSuffix == <<"@","t","i","c","k","e","r">>

BTCUSDT == <<"B","T","C","U","S","D","T">>
ETHUSDT == <<"E","T","H","U","S","D","T">>
BTCUSDTPERP == <<"B","T","C","U","S","D","T","P","E","R","P">>
ethusdt == <<"e","t","h","u","s","d","t">>
btcusdtperp == <<"b","t","c","u","s","d","t","p","e","r","p">>

\* tokens the renderer passes to add-symbol / remove-symbol: a spot symbol
\* of the default watch-list, or a perpetual-futures symbol
SpotTokens == {ethusdt}
PerpTokens == {btcusdtperp}

\* tokens of the watch-list store: the empty token, a default symbol, a
\* default symbol written with a separator, and a perpetual-futures symbol
btc_usdt == <<"b", "t", "c", "_", "u", "s", "d", "t">>
StoreTokens == {<<>>, ethusdt, btc_usdt, btcusdtperp}

DefaultSymbols == <<BTCUSDT, ETHUSDT>>

\* ------------------------------------------------------- symbol normalizer
getMarketType(symbol) == IF Includes(symbol, PERP) THEN "PERP" ELSE "SPOT"

normalizeSymbol(symbol) == ToUpperCase(StripUnderscores(symbol))

getStreamName(symbol) ==
  LET normalized == normalizeSymbol(symbol)
      marketType == getMarketType(symbol)
  IN IF marketType = "PERP"
     THEN ToLowerCase(ReplaceFirst(ReplaceFirst(normalized, PERP, <<>>), USDT, <<>>))
            \o ToLowerCase(USDT) \o TickerSuffix
     ELSE ToLowerCase(normalized) \o TickerSuffix

getBaseAsset(symbol) ==
  LET normalized == normalizeSymbol(symbol)
  IN IF Includes(normalized, PERP)
     THEN ReplaceFirst(ReplaceFirst(normalized, USDT \o PERP, <<>>), PERP, <<>>)
     ELSE ReplaceFirst(normalized, USDT, <<>>)

\* a map that lists the stream names last to first
Streams_Reversed(symbols) ==
  [i \in 1..Len(symbols) |-> getStreamName(symbols[Len(symbols) + 1 - i])]

\* symbols.map(symbol => getStreamName(symbol))
Streams(symbols) == [i \in 1..Len(symbols) |-> getStreamName(symbols[i])]

\* watchedSymbols.filter(s => getMarketType(s) === marketType)
SymbolsOf(symbols, marketType) ==
  SelectSeq(symbols, LAMBDA s : getMarketType(s) = marketType)

Range(f) == {f[i] : i \in DOMAIN f}

\* ------------------------------------------------------------------- state
VARIABLES
  watchedSymbols,        \* string[]
  wsSpotConnection,      \* socket index or Null
  wsPerpConnection,      \* socket index or Null
  isQuitting,            \* boolean
  reconnectTimeout,      \* timer index or Null
  perpReconnectTimeout,  \* timer index or Null
  requestId,             \* next request id
  sockets,               \* every WebSocket object constructed so far
  timers,                \* every timer created so far
  started,               \* app.whenReady() has resolved
  event                  \* the handler that ran last, with its argument and result

vars == <<watchedSymbols, wsSpotConnection, wsPerpConnection, isQuitting,
          reconnectTimeout, perpReconnectTimeout, requestId, sockets, timers,
          started, event>>

\* the module-level variables as one record, threaded through a handler's
\* statements in program order
State ==
  [watchedSymbols |-> watchedSymbols,
   wsSpotConnection |-> wsSpotConnection,
   wsPerpConnection |-> wsPerpConnection,
   isQuitting |-> isQuitting,
   reconnectTimeout |-> reconnectTimeout,
   perpReconnectTimeout |-> perpReconnectTimeout,
   requestId |-> requestId,
   sockets |-> sockets,
   timers |-> timers]

\* no frame
NoData == [json |-> "none"]

\* `data` is the frame a message handler was given, `priceUpdates` what it
\* sent to the window on the price-update channel, `out` the string or list a
\* helper or handler returned
Event(op, sym, mt, code, ret) ==
  [op |-> op, sym |-> sym, mt |-> mt, code |-> code, ret |-> ret,
   data |-> NoData, priceUpdates |-> <<>>, out |-> <<>>]

\* ------------------------------------------------------ WebSocket platform
\* new WebSocket(endpoint), with the handlers' closure variable `symbols`;
\* `byRetry` is the timer whose callback constructed it, Null if none did;
\* `byReconnect` tells that the reconnect-websocket handler constructed it
NewSocket(marketType, symbols, byRetry) ==
  [mt |-> marketType, readyState |-> "CONNECTING", symbols |-> symbols,
   sent |-> <<>>, byRetry |-> byRetry, byReconnect |-> FALSE]

\* a socket after its close event
ClosedSocket(socket) ==
  [mt |-> socket.mt, readyState |-> "CLOSED", symbols |-> <<>>,
   sent |-> <<>>, byRetry |-> socket.byRetry, byReconnect |-> FALSE]

\* ws.close(1000, reason) on an OPEN socket: the closing handshake starts and
\* the close event is delivered later, carrying the code of the handshake
WsClose(st, i) == [st EXCEPT !.sockets[i].readyState = "CLOSING"]

\* ws.send(frame) on an OPEN socket
WsSend(st, i, frame) == [st EXCEPT !.sockets[i].sent = Append(@, frame)]

IsOpen(st, c) == c # Null /\ st.sockets[c].readyState = "OPEN"

\* clearTimeout(handle): cancels the timer if it has not fired yet; the
\* callback of a cancelled timer is dropped with what it holds
ClearTimeout(st, h) ==
  IF h # Null /\ st.timers[h].pending
  THEN [st EXCEPT !.timers[h].pending = FALSE, !.timers[h].watched = <<>>]
  ELSE st

\* a timer of a segment, set while `watched` were the segment's symbols
Timer(marketType, watched) ==
  [mt |-> marketType, pending |-> TRUE, watched |-> watched]

\* setTimeout(callback, 5000): the new timer, its handle is its index
SetTimeout(st, marketType) ==
  [st EXCEPT !.timers = Append(@, Timer(marketType, SymbolsOf(st.watchedSymbols, marketType)))]

\* ------------------------------------------------------ connection manager
connectToSpotWebSocket(st, symbols, byRetry) ==
  LET c == st.wsSpotConnection
      s1 == IF c # Null
            THEN [(IF IsOpen(st, c) THEN WsClose(st, c) ELSE st)
                    EXCEPT !.wsSpotConnection = Null]
            ELSE st
      s2 == IF s1.reconnectTimeout # Null
            THEN [ClearTimeout(s1, s1.reconnectTimeout) EXCEPT !.reconnectTimeout = Null]
            ELSE s1
  IN [s2 EXCEPT !.sockets = Append(@, NewSocket("SPOT", symbols, byRetry)),
                !.wsSpotConnection = Len(s2.sockets) + 1]

connectToPerpWebSocket(st, symbols, byRetry) ==
  LET c == st.wsPerpConnection
      s1 == IF c # Null
            THEN [(IF IsOpen(st, c) THEN WsClose(st, c) ELSE st)
                    EXCEPT !.wsPerpConnection = Null]
            ELSE st
      s2 == IF s1.perpReconnectTimeout # Null
            THEN [ClearTimeout(s1, s1.perpReconnectTimeout) EXCEPT !.perpReconnectTimeout = Null]
            ELSE s1
  IN [s2 EXCEPT !.sockets = Append(@, NewSocket("PERP", symbols, byRetry)),
                !.wsPerpConnection = Len(s2.sockets) + 1]

connectToBinance(st) ==
  LET spotSymbols == SymbolsOf(st.watchedSymbols, "SPOT")
      perpSymbols == SymbolsOf(st.watchedSymbols, "PERP")
      s1 == IF Len(spotSymbols) > 0
            THEN connectToSpotWebSocket(st, spotSymbols, Null) ELSE st
  IN IF Len(perpSymbols) > 0
     THEN connectToPerpWebSocket(s1, perpSymbols, Null) ELSE s1

WsConnectionOf(st, marketType) ==
  IF marketType = "PERP" THEN st.wsPerpConnection ELSE st.wsSpotConnection

\* a counter that is not advanced after a request
NextRequestId_Same(id) == id

\* requestId++ : the counter after a request was built with its value
NextRequestId(id) == id + 1

subscribeToSymbols(st, symbols, marketType) ==
  LET wsConnection == WsConnectionOf(st, marketType)
  IN IF ~IsOpen(st, wsConnection) THEN st
     ELSE [WsSend(st, wsConnection,
                  [method |-> "SUBSCRIBE", params |-> Streams(symbols), id |-> st.requestId])
             EXCEPT !.requestId = NextRequestId(@)]

unsubscribeFromSymbols(st, symbols, marketType) ==
  LET wsConnection == WsConnectionOf(st, marketType)
  IN IF ~IsOpen(st, wsConnection) THEN st
     ELSE [WsSend(st, wsConnection,
                  [method |-> "UNSUBSCRIBE", params |-> Streams(symbols), id |-> st.requestId])
             EXCEPT !.requestId = NextRequestId(@)]

addSymbolSubscription(st, symbol) ==
  LET marketType == getMarketType(symbol)
      wsConnection == WsConnectionOf(st, marketType)
  IN IF ~IsOpen(st, wsConnection)
     THEN IF marketType = "PERP"
          THEN connectToPerpWebSocket(st, SymbolsOf(st.watchedSymbols, "PERP"), Null)
          ELSE connectToSpotWebSocket(st, SymbolsOf(st.watchedSymbols, "SPOT"), Null)
     ELSE subscribeToSymbols(st, <<symbol>>, marketType)

removeSymbolSubscription(st, symbol) ==
  LET marketType == getMarketType(symbol)
      wsConnection == WsConnectionOf(st, marketType)
  IN IF IsOpen(st, wsConnection)
     THEN LET s1 == unsubscribeFromSymbols(st, <<symbol>>, marketType)
              remainingSymbols ==
                SelectSeq(s1.watchedSymbols,
                          LAMBDA s : getMarketType(s) = marketType /\ s # symbol)
          IN IF Len(remainingSymbols) = 0
             THEN LET s2 == WsClose(s1, wsConnection)
                  IN IF marketType = "PERP"
                     THEN [s2 EXCEPT !.wsPerpConnection = Null]
                     ELSE [s2 EXCEPT !.wsSpotConnection = Null]
             ELSE s1
     ELSE st

\* ---------------------------------------------------------- socket handlers
\* wsSpotConnection.onopen (the socket's closure holds `symbols`)
SpotOnOpen(st, i) ==
  LET symbols == st.sockets[i].symbols
      s1 == IF Len(symbols) > 0 THEN subscribeToSymbols(st, symbols, "SPOT") ELSE st
  IN IF s1.reconnectTimeout # Null
     THEN [ClearTimeout(s1, s1.reconnectTimeout) EXCEPT !.reconnectTimeout = Null]
     ELSE s1

PerpOnOpen(st, i) ==
  LET symbols == st.sockets[i].symbols
      s1 == IF Len(symbols) > 0 THEN subscribeToSymbols(st, symbols, "PERP") ELSE st
  IN IF s1.perpReconnectTimeout # Null
     THEN [ClearTimeout(s1, s1.perpReconnectTimeout) EXCEPT !.perpReconnectTimeout = Null]
     ELSE s1

\* a retry callback that reconnects with the symbols that were watched when
\* the timer was set
SpotRetry_Snapshot(st, t) ==
  LET spotSymbols == st.timers[t].watched
  IN IF Len(spotSymbols) > 0
     THEN connectToSpotWebSocket(st, spotSymbols, t) ELSE st

\* the callbacks handed to setTimeout by the two onclose handlers, run for
\* timer t
SpotRetry(st, t) ==
  LET spotSymbols == SymbolsOf(st.watchedSymbols, "SPOT")
  IN IF Len(spotSymbols) > 0
     THEN connectToSpotWebSocket(st, spotSymbols, t) ELSE st

\* a retry callback that reconnects without looking at the watch-list
PerpRetry_Always(st, t) ==
  connectToPerpWebSocket(st, SymbolsOf(st.watchedSymbols, "PERP"), t)

PerpRetry(st, t) ==
  LET perpSymbols == SymbolsOf(st.watchedSymbols, "PERP")
  IN IF Len(perpSymbols) > 0
     THEN connectToPerpWebSocket(st, perpSymbols, t) ELSE st

\* an error handler that schedules a retry
SpotOnError_Reconnect(st) ==
  [SetTimeout(st, "SPOT") EXCEPT !.reconnectTimeout = Len(st.timers) + 1]

\* wsSpotConnection.onerror: the error is logged
SpotOnError(st) == st

\* wsPerpConnection.onerror: the error is logged
PerpOnError(st) == st

\* a close handler that does not look at the close code
ShouldReconnect_IgnoresCode(st, code) == ~st.isQuitting

\* the condition under which onclose schedules a retry
ShouldReconnect(st, code) == ~st.isQuitting /\ code # IntentionalCode

\* a close handler that reconnects at once instead of after the delay
SpotOnClose_Immediate(st, code) ==
  LET s1 == [st EXCEPT !.wsSpotConnection = Null]
      spotSymbols == SymbolsOf(s1.watchedSymbols, "SPOT")
  IN IF ShouldReconnect(s1, code) /\ Len(spotSymbols) > 0
     THEN connectToSpotWebSocket(s1, spotSymbols, Null) ELSE s1

\* wsSpotConnection.onclose
SpotOnClose(st, code) ==
  LET s1 == [st EXCEPT !.wsSpotConnection = Null]
  IN IF ShouldReconnect(s1, code)
     THEN [SetTimeout(s1, "SPOT") EXCEPT !.reconnectTimeout = Len(s1.timers) + 1]
     ELSE s1

\* a perpetual close handler that clears the spot reference
PerpOnClose_SpotReference(st, code) ==
  LET s1 == [st EXCEPT !.wsSpotConnection = Null]
  IN IF ShouldReconnect(s1, code)
     THEN [SetTimeout(s1, "PERP") EXCEPT !.perpReconnectTimeout = Len(s1.timers) + 1]
     ELSE s1

PerpOnClose(st, code) ==
  LET s1 == [st EXCEPT !.wsPerpConnection = Null]
  IN IF ShouldReconnect(s1, code)
     THEN [SetTimeout(s1, "PERP") EXCEPT !.perpReconnectTimeout = Len(s1.timers) + 1]
     ELSE s1

\* ------------------------------------------------------------ dispatcher
\* JSON texts.  A text is no JSON at all ("invalid"), the literal null, or
\* an object; a member of the object is <<>> when absent and <<value>> when
\* present.
JsNull == "null"
TickerEvent == "24hrTicker"

JsonObject(result, id, e, s, c, P) ==
  [json |-> "object", result |-> result, id |-> id, e |-> e, s |-> s, c |-> c, P |-> P]

NotJson == [JsonObject(<<>>, <<>>, <<>>, <<>>, <<>>, <<>>) EXCEPT !.json = "invalid"]
JsonNull == [JsonObject(<<>>, <<>>, <<>>, <<>>, <<>>, <<>>) EXCEPT !.json = "null"]

\* JSON.parse(text): throws SyntaxError on a text that is not JSON
JsonParse(text) == [threw |-> text.json = "invalid", value |-> text]

\* truthiness of a member holding a string / a number
TruthyString(member) == member # <<>> /\ member[1] # <<>>
TruthyNumber(member) == member # <<>> /\ member[1] # 0

\* parseFloat(c).toFixed(2), for a decimal numeral with at most two
\* fraction digits
ToFixed2(c) ==
  LET dots == {k \in 1..Len(c) : c[k] = "."}
  IN IF dots = {} THEN c \o <<".", "0", "0">>
     ELSE LET frac == Len(c) - (CHOOSE k \in dots : TRUE)
          IN IF frac = 0 THEN c \o <<"0", "0">>
             ELSE IF frac = 1 THEN c \o <<"0">>
             ELSE c

ZeroPercent == <<"0", ".", "0", "0">>

\* a percent change passed on as the venue sent it
PriceChangePercent_Raw(message) ==
  IF message.P # <<>> THEN message.P[1] ELSE <<>>

\* message.P || '0.00'
PriceChangePercent(message) ==
  IF TruthyString(message.P) THEN message.P[1] ELSE ZeroPercent

\* mainWindow && !mainWindow.isDestroyed(): the window is created before the
\* first connection and destroyed by quitting
MainWindowAlive(st) == ~st.isQuitting

\* a handler without the try block
Catch_Rethrow(threw) == threw

\* try { ... } catch (error) { console.error(...) }: whether the exception
\* leaves the handler
Catch(threw) == FALSE

\* a symbol passed on as it came over the wire
FullSymbol_Wire(message, marketType) == message.s[1]

\* marketType === 'PERP' ? `${message.s}PERP` : message.s
FullSymbol(message, marketType) ==
  IF marketType = "PERP" THEN message.s[1] \o PERP ELSE message.s[1]

\* handleWebSocketMessage(event, marketType): what it sends to the window and
\* whether it throws (the timestamp of the record is left out)
handleWebSocketMessage(st, data, marketType) ==
  LET parsed == JsonParse(data)
      message == parsed.value
  IN IF parsed.threw \/ message.json = "null"
     THEN [priceUpdates |-> <<>>, threw |-> Catch(TRUE)]
     ELSE IF message.result = <<JsNull>> /\ TruthyNumber(message.id)
     THEN [priceUpdates |-> <<>>, threw |-> FALSE]
     ELSE IF message.e = <<TickerEvent>> /\ TruthyString(message.s) /\ TruthyString(message.c)
     THEN LET fullSymbol == FullSymbol(message, marketType)
              priceData == [symbol |-> message.s[1],
                            price |-> ToFixed2(message.c[1]),
                            priceChangePercent |-> PriceChangePercent(message),
                            marketType |-> marketType]
          IN [priceUpdates |-> IF MainWindowAlive(st)
                               THEN <<[symbol |-> fullSymbol, data |-> priceData]>>
                               ELSE <<>>,
              threw |-> FALSE]
     ELSE [priceUpdates |-> <<>>, threw |-> FALSE]

\* ------------------------------------------------------------- IPC handlers
\* Array.prototype.indexOf, 1-based; 0 when absent
IndexOf(seq, x) ==
  IF x \in Range(seq) THEN CHOOSE i \in DOMAIN seq : seq[i] = x /\ \A j \in 1..(i - 1) : seq[j] # x
  ELSE 0

\* a splice that drops the last element instead
Splice_Last(seq, i) == SubSeq(seq, 1, Len(seq) - 1)

\* Array.prototype.splice(index, 1)
Splice(seq, i) == SubSeq(seq, 1, i - 1) \o SubSeq(seq, i + 1, Len(seq))

\* an add-symbol that does not look for the symbol in the watch-list
IsNewSymbol_Always(st, upperSymbol) == TRUE

\* the test that lets add-symbol insert
IsNewSymbol(st, upperSymbol) == upperSymbol \notin Range(st.watchedSymbols)

\* ipcMain.handle('add-symbol'): the state it leaves and the value it returns
AddSymbolHandler(st, symbol) ==
  LET upperSymbol == ToUpperCase(symbol)
  IN IF IsNewSymbol(st, upperSymbol)
     THEN [st |-> addSymbolSubscription(
                    [st EXCEPT !.watchedSymbols = Append(@, upperSymbol)], upperSymbol),
           ret |-> TRUE]
     ELSE [st |-> st, ret |-> FALSE]

\* ipcMain.handle('remove-symbol')
RemoveSymbolHandler(st, symbol) ==
  LET upperSymbol == ToUpperCase(symbol)
      index == IndexOf(st.watchedSymbols, upperSymbol)
  IN IF index > 0
     THEN [st |-> [removeSymbolSubscription(st, upperSymbol)
                     EXCEPT !.watchedSymbols = Splice(@, index)],
           ret |-> TRUE]
     ELSE [st |-> st, ret |-> FALSE]

\* ipcMain.on('close-app'); the tray menu's Exit item runs the same statements
Shutdown(st) ==
  LET s0 == [st EXCEPT !.isQuitting = TRUE]
      s1 == [(IF IsOpen(s0, s0.wsSpotConnection)
              THEN WsClose(s0, s0.wsSpotConnection) ELSE s0)
               EXCEPT !.wsSpotConnection = Null]
      s2 == [(IF IsOpen(s1, s1.wsPerpConnection)
              THEN WsClose(s1, s1.wsPerpConnection) ELSE s1)
               EXCEPT !.wsPerpConnection = Null]
      s3 == IF s2.reconnectTimeout # Null
            THEN [ClearTimeout(s2, s2.reconnectTimeout) EXCEPT !.reconnectTimeout = Null]
            ELSE s2
  IN IF s3.perpReconnectTimeout # Null
     THEN [ClearTimeout(s3, s3.perpReconnectTimeout) EXCEPT !.perpReconnectTimeout = Null]
     ELSE s3

CloseAppHandler(st) == Shutdown(st)
TrayExitHandler(st) == Shutdown(st)

\* ----------------------------------------------------------------- actions
WithinBounds(st) ==
  /\ Len(st.sockets) <= MaxSockets
  /\ Cardinality({i \in DOMAIN st.sockets : st.sockets[i].readyState # "CLOSED"}) <= MaxLiveSockets
  /\ Len(st.timers) <= MaxTimers
  /\ st.requestId <= MaxRequestId + 1

\* the handler's final state becomes the next state
Commit(st) ==
  /\ WithinBounds(st)
  /\ watchedSymbols' = st.watchedSymbols
  /\ wsSpotConnection' = st.wsSpotConnection
  /\ wsPerpConnection' = st.wsPerpConnection
  /\ isQuitting' = st.isQuitting
  /\ reconnectTimeout' = st.reconnectTimeout
  /\ perpReconnectTimeout' = st.perpReconnectTimeout
  /\ requestId' = st.requestId
  /\ sockets' = st.sockets
  /\ timers' = st.timers

NoEvent == Event("init", <<>>, "NONE", 0, FALSE)

Init ==
  /\ watchedSymbols = DefaultSymbols
  /\ wsSpotConnection = Null
  /\ wsPerpConnection = Null
  /\ isQuitting = FALSE
  /\ reconnectTimeout = Null
  /\ perpReconnectTimeout = Null
  /\ requestId = InitialRequestId
  /\ sockets = <<>>
  /\ timers = <<>>
  /\ started = FALSE
  /\ event = NoEvent

\* app.whenReady().then(...): connectToBinance()
Startup ==
  /\ ~started
  /\ started' = TRUE
  /\ Commit(connectToBinance(State))
  /\ event' = Event("startup", <<>>, "NONE", 0, TRUE)

\* the renderer is alive between startup and shutdown
RendererAlive == started /\ ~isQuitting

AddSymbol(symbol) ==
  /\ RendererAlive
  /\ LET r == AddSymbolHandler(State, symbol)
     IN /\ Commit(r.st)
        /\ event' = Event("add-symbol", symbol, getMarketType(ToUpperCase(symbol)), 0, r.ret)
  /\ UNCHANGED started

RemoveSymbol(symbol) ==
  /\ RendererAlive
  /\ LET r == RemoveSymbolHandler(State, symbol)
     IN /\ Commit(r.st)
        /\ event' = Event("remove-symbol", symbol, getMarketType(ToUpperCase(symbol)), 0, r.ret)
  /\ UNCHANGED started

\* the sockets constructed after the first `n` carry the mark of the
\* reconnect-websocket handler
ByReconnect(st, n) ==
  [st EXCEPT !.sockets = [i \in DOMAIN st.sockets |->
                            IF i > n THEN [st.sockets[i] EXCEPT !.byReconnect = TRUE]
                            ELSE st.sockets[i]]]

\* ipcMain.handle('get-watched-symbols')
GetWatchedSymbols ==
  /\ RendererAlive
  /\ event' = [Event("get-watched-symbols", <<>>, "NONE", 0, TRUE)
                 EXCEPT !.out = watchedSymbols]
  /\ Commit(State)
  /\ UNCHANGED started

\* ipcMain.handle('reconnect-websocket')
ReconnectWebSocket ==
  /\ RendererAlive
  /\ Commit(ByReconnect(connectToBinance(State), Len(sockets)))
  /\ event' = Event("reconnect-websocket", <<>>, "NONE", 0, TRUE)
  /\ UNCHANGED started

CloseApp ==
  /\ RendererAlive
  /\ Commit(CloseAppHandler(State))
  /\ event' = Event("close-app", <<>>, "NONE", 0, TRUE)
  /\ UNCHANGED started

TrayExit ==
  /\ RendererAlive
  /\ Commit(TrayExitHandler(State))
  /\ event' = Event("tray-exit", <<>>, "NONE", 0, TRUE)
  /\ UNCHANGED started

\* the handshake of socket i completes: readyState becomes OPEN and its
\* onopen handler runs
SocketOpen(i) ==
  /\ sockets[i].readyState = "CONNECTING"
  /\ LET s0 == [State EXCEPT !.sockets[i].readyState = "OPEN"]
     IN Commit(IF sockets[i].mt = "PERP" THEN PerpOnOpen(s0, i) ELSE SpotOnOpen(s0, i))
  /\ event' = Event("open", <<>>, sockets[i].mt, 0, TRUE)
  /\ UNCHANGED started

\* the codes a close event can carry for socket i: a failed handshake is
\* abnormal; a closing handshake started by ws.close(code) ends with that
\* code; an established connection is ended by the venue or the network
CloseCodes(i) ==
  IF sockets[i].readyState = "CONNECTING" THEN {AbnormalCode}
  ELSE IF sockets[i].readyState = "CLOSING" THEN {IntentionalCode}
  ELSE {IntentionalCode, AbnormalCode}

\* socket i is closed: readyState becomes CLOSED and its onclose handler runs
SocketClose(i, code) ==
  /\ sockets[i].readyState # "CLOSED"
  /\ code \in CloseCodes(i)
  /\ LET s0 == [State EXCEPT !.sockets[i] = ClosedSocket(sockets[i])]
     IN Commit(IF sockets[i].mt = "PERP" THEN PerpOnClose(s0, code) ELSE SpotOnClose(s0, code))
  /\ event' = Event("close", <<>>, sockets[i].mt, code, TRUE)
  /\ UNCHANGED started

\* socket i reports an error and its onerror handler runs; the close event
\* that follows a fatal error is a step of its own
SocketError(i) ==
  /\ sockets[i].readyState \in {"CONNECTING", "OPEN"}
  /\ Commit(IF sockets[i].mt = "PERP" THEN PerpOnError(State) ELSE SpotOnError(State))
  /\ event' = Event("error", <<>>, sockets[i].mt, 0, TRUE)
  /\ UNCHANGED started

\* the 5 second delay of pending timer t elapses and its callback runs
RetryFire(t) ==
  /\ timers[t].pending
  /\ LET s0 == [State EXCEPT !.timers[t].pending = FALSE]
     IN Commit(IF timers[t].mt = "PERP" THEN PerpRetry(s0, t) ELSE SpotRetry(s0, t))
  /\ event' = Event("retry", <<>>, timers[t].mt, 0, TRUE)
  /\ UNCHANGED started

\* frames the venue sends
Price1 == <<"6", "5", "0", "0", "0", ".", "1", "2">>
Price2 == <<"3", "0", "0", "0", ".", "5">>
Percent1 == <<"1", ".", "2", "3">>

TickerFrame == JsonObject(<<>>, <<>>, <<TickerEvent>>, <<BTCUSDT>>, <<Price1>>, <<Percent1>>)
TickerFrameNoPercent == JsonObject(<<>>, <<>>, <<TickerEvent>>, <<ETHUSDT>>, <<Price2>>, <<>>)
TickerFrameNoPrice == JsonObject(<<>>, <<>>, <<TickerEvent>>, <<BTCUSDT>>, <<>>, <<Percent1>>)
AckFrame == JsonObject(<<JsNull>>, <<1>>, <<>>, <<>>, <<>>, <<>>)
TradeFrame == JsonObject(<<>>, <<>>, <<"aggTrade">>, <<BTCUSDT>>, <<Price1>>, <<>>)

Frames == {TickerFrame, TickerFrameNoPercent, TickerFrameNoPrice, AckFrame,
           TradeFrame, JsonNull, NotJson}

\* a frame arrives on socket i and its onmessage handler runs
Message(i, data) ==
  /\ sockets[i].readyState \in {"OPEN", "CLOSING"}
  /\ LET r == handleWebSocketMessage(State, data, sockets[i].mt)
     IN event' = [Event("message", <<>>, sockets[i].mt, 0, ~r.threw)
                    EXCEPT !.data = data, !.priceUpdates = r.priceUpdates]
  /\ Commit(State)
  /\ UNCHANGED started

\* what the venue, the network and the clock do to the sockets and timers
Environment ==
  \/ \E i \in DOMAIN sockets : SocketOpen(i)
  \/ \E i \in DOMAIN sockets : \E code \in {IntentionalCode, AbnormalCode} : SocketClose(i, code)
  \/ \E t \in DOMAIN timers : RetryFire(t)

\* the renderer adds and removes a spot symbol
Next ==
  \/ Startup
  \/ \E symbol \in SpotTokens : AddSymbol(symbol)
  \/ \E symbol \in SpotTokens : RemoveSymbol(symbol)
  \/ ReconnectWebSocket
  \/ CloseApp
  \/ TrayExit
  \/ Environment

Spec == Init /\ [][Next]_vars

\* the renderer adds and removes a perpetual-futures symbol
NextPerp ==
  \/ Startup
  \/ \E symbol \in PerpTokens : AddSymbol(symbol)
  \/ \E symbol \in PerpTokens : RemoveSymbol(symbol)
  \/ ReconnectWebSocket
  \/ CloseApp
  \/ TrayExit
  \/ Environment

SpecPerp == Init /\ [][NextPerp]_vars

\* the renderer edits and reads the watch-list while handshakes complete
NextStore ==
  \/ Startup
  \/ \E symbol \in StoreTokens : AddSymbol(symbol)
  \/ \E symbol \in StoreTokens : RemoveSymbol(symbol)
  \/ GetWatchedSymbols
  \/ \E i \in DOMAIN sockets : SocketOpen(i)

SpecStore == Init /\ [][NextStore]_vars

\* the venue sends frames while the renderer adds a perpetual-futures symbol
NextDispatch ==
  \/ Startup
  \/ \E symbol \in PerpTokens : AddSymbol(symbol)
  \/ \E i \in DOMAIN sockets : \E data \in Frames : Message(i, data)
  \/ \E i \in DOMAIN sockets : SocketError(i)
  \/ CloseApp
  \/ Environment

SpecDispatch == Init /\ [][NextDispatch]_vars

\* the renderer adds and removes a perpetual symbol while the sockets and
\* timers of both segments deliver their events
NextSegments ==
  \/ Startup
  \/ \E symbol \in PerpTokens : AddSymbol(symbol)
  \/ \E symbol \in PerpTokens : RemoveSymbol(symbol)
  \/ \E i \in DOMAIN sockets : Message(i, TickerFrame)
  \/ \E i \in DOMAIN sockets : SocketError(i)
  \/ Environment

SpecSegments == Init /\ [][NextSegments]_vars

\* the renderer adds and removes a spot symbol while the venue streams
NextStream ==
  \/ Startup
  \/ \E symbol \in SpotTokens : AddSymbol(symbol)
  \/ \E symbol \in SpotTokens : RemoveSymbol(symbol)
  \/ \E i \in DOMAIN sockets : SocketOpen(i)
  \/ \E i \in DOMAIN sockets : \E data \in Frames : Message(i, data)

SpecStream == Init /\ [][NextStream]_vars

\* ------------------------------------------- the symbol normalizer, alone
\* tokens: letters of both cases, a digit and the underscore, in pieces
TokenPieces ==
  {PERP, ToLowerCase(PERP), USDT, ToLowerCase(USDT),
   <<"B", "T", "C">>, <<"b", "t", "c">>, <<"_">>, <<"1">>}

RECURSIVE TokensOf(_)
TokensOf(n) ==
  IF n = 0 THEN {<<>>}
  ELSE LET shorter == TokensOf(n - 1)
       IN shorter \cup {t \o piece : t \in shorter, piece \in TokenPieces}

InputTokens == TokensOf(MaxTokenPieces) \ {<<>>}

\* the program as constructed, and a token to hand to the helpers
InitNormalizer ==
  /\ watchedSymbols = DefaultSymbols
  /\ wsSpotConnection = Null
  /\ wsPerpConnection = Null
  /\ isQuitting = FALSE
  /\ reconnectTimeout = Null
  /\ perpReconnectTimeout = Null
  /\ requestId = InitialRequestId
  /\ sockets = <<>>
  /\ timers = <<>>
  /\ started = FALSE
  /\ \E token \in InputTokens : event = Event("token", token, "NONE", 0, FALSE)

\* normalizeSymbol(token)
NormalizeSymbol ==
  /\ event.op = "token"
  /\ event' = [Event("normalizeSymbol", event.sym, "NONE", 0, TRUE)
                 EXCEPT !.out = normalizeSymbol(event.sym)]
  /\ Commit(State)
  /\ UNCHANGED started

\* getMarketType(token)
GetMarketType ==
  /\ event.op = "token"
  /\ event' = Event("getMarketType", event.sym, getMarketType(event.sym), 0, TRUE)
  /\ Commit(State)
  /\ UNCHANGED started

\* getStreamName(token), with the market type it computes on the way
GetStreamName ==
  /\ event.op = "token"
  /\ event' = [Event("getStreamName", event.sym, getMarketType(event.sym), 0, TRUE)
                 EXCEPT !.out = getStreamName(event.sym)]
  /\ Commit(State)
  /\ UNCHANGED started

\* getBaseAsset(token)
GetBaseAsset ==
  /\ event.op = "token"
  /\ event' = [Event("getBaseAsset", event.sym, "NONE", 0, TRUE)
                 EXCEPT !.out = getBaseAsset(event.sym)]
  /\ Commit(State)
  /\ UNCHANGED started

NextNormalizer ==
  \/ GetBaseAsset
  \/ NormalizeSymbol
  \/ GetMarketType
  \/ GetStreamName

SpecNormalizer == InitNormalizer /\ [][NextNormalizer]_vars

\* what the platform is bound to do: a handshake in progress completes unless
\* it fails first, a closing handshake ends with the close event, and a timer
\* that stays pending fires
Fairness ==
  /\ WF_vars(\E i \in DOMAIN sockets : SocketOpen(i))
  /\ WF_vars(\E i \in DOMAIN sockets :
               sockets[i].readyState = "CLOSING" /\ SocketClose(i, IntentionalCode))
  /\ WF_vars(\E t \in DOMAIN timers : RetryFire(t))

FairSpec == Spec /\ Fairness

TypeOK ==
  /\ wsSpotConnection \in 0..Len(sockets)
  /\ wsPerpConnection \in 0..Len(sockets)
  /\ reconnectTimeout \in 0..Len(timers)
  /\ perpReconnectTimeout \in 0..Len(timers)
  /\ requestId >= InitialRequestId

\* ------------------------------------------------------------ observations
MarketTypes == {"SPOT", "PERP"}

WsConnection(marketType) == WsConnectionOf(State, marketType)

\* sockets of a segment whose connection is being or has been established
LiveSockets(marketType) ==
  {i \in DOMAIN sockets : sockets[i].mt = marketType
                          /\ sockets[i].readyState \in {"CONNECTING", "OPEN"}}

\* timers of a segment that are scheduled, not fired and not cancelled
PendingTimersIn(tms, marketType) ==
  {t \in DOMAIN tms : tms[t].mt = marketType /\ tms[t].pending}

PendingTimers(marketType) == PendingTimersIn(timers, marketType)

\* the streams a venue holds subscribed after the frames `sent`
RECURSIVE SubscribedStreams(_)
SubscribedStreams(sent) ==
  IF sent = <<>> THEN {}
  ELSE LET frame == sent[Len(sent)]
           before == SubscribedStreams(SubSeq(sent, 1, Len(sent) - 1))
       IN IF frame.method = "SUBSCRIBE"
          THEN before \cup Range(frame.params)
          ELSE before \ Range(frame.params)

WatchedStreams(marketType) == Range(Streams(SymbolsOf(watchedSymbols, marketType)))

SubscribeFrame(symbols, id) ==
  [method |-> "SUBSCRIBE", params |-> Streams(symbols), id |-> id]

\* socket i delivers its open event in this step
Opens(i) == sockets[i].readyState = "CONNECTING" /\ sockets'[i].readyState = "OPEN"

\* ------------------------------------------------------------------ claims

\* C1: whenever a segment's current connection is Open, the streams
\* subscribed on it (SUBSCRIBE minus UNSUBSCRIBE frames sent on it) are the
\* streams of the symbols now watched for that segment.
C1_SubscriptionConsistent ==
  \A marketType \in MarketTypes :
    IsOpen(State, WsConnection(marketType)) =>
      SubscribedStreams(sockets[WsConnection(marketType)].sent) = WatchedStreams(marketType)

\* C2: each segment has at most one socket that is Connecting or Open.
C2_AtMostOneLiveConnection ==
  \A marketType \in MarketTypes : Cardinality(LiveSockets(marketType)) <= 1

\* C3: each segment has at most one pending retry timer.
C3_AtMostOnePendingRetry ==
  \A marketType \in MarketTypes : Cardinality(PendingTimers(marketType)) <= 1

\* C4: a close event with code 1000, or one delivered while the quitting
\* flag is set, schedules no retry timer and creates no connection.
C4_NoRetryAfterIntentionalClose ==
  [][(event'.op = "close" /\ (event'.code = IntentionalCode \/ isQuitting))
       => /\ timers' = timers
          /\ reconnectTimeout' = reconnectTimeout
          /\ perpReconnectTimeout' = perpReconnectTimeout
          /\ Len(sockets') = Len(sockets)]_vars

\* C4 witness: an intentional close event was delivered for a segment that
\* still has watched symbols while the app is not quitting, and nothing is
\* pending for it.
C4_Witness ==
  /\ event.op = "close" /\ event.code = IntentionalCode /\ ~isQuitting
  /\ SymbolsOf(watchedSymbols, event.mt) # <<>>
  /\ PendingTimers(event.mt) = {}

\* C5: a remove-symbol that removes the last watched symbol of a segment
\* leaves the segment without a live connection (its connection was closed
\* with code 1000) and without a pending retry timer.
C5_LastSymbolRemovedClosesConnection ==
  [][(event'.op = "remove-symbol" /\ event'.ret
        /\ SymbolsOf(watchedSymbols, event'.mt) # <<>>
        /\ SymbolsOf(watchedSymbols', event'.mt) = <<>>)
       => /\ \A i \in DOMAIN sockets' :
               sockets'[i].mt = event'.mt => sockets'[i].readyState \in {"CLOSING", "CLOSED"}
          /\ \A t \in DOMAIN timers' : timers'[t].mt = event'.mt => ~timers'[t].pending]_vars

\* C6: add-symbol of a symbol already in the watch-list returns false and
\* changes neither the watch-list, the connections, the timers nor the
\* request-id counter, and sends nothing.
C6_DuplicateAddIsNoOp ==
  [][(event'.op = "add-symbol" /\ ToUpperCase(event'.sym) \in Range(watchedSymbols))
       => /\ event'.ret = FALSE
          /\ UNCHANGED <<watchedSymbols, wsSpotConnection, wsPerpConnection, isQuitting,
                         reconnectTimeout, perpReconnectTimeout, requestId, sockets, timers>>]_vars

\* C6 witness: add-symbol has just returned false for a watched symbol while
\* its segment has an Open connection.
C6_Witness ==
  /\ event.op = "add-symbol" /\ event.ret = FALSE
  /\ ToUpperCase(event.sym) \in Range(watchedSymbols)
  /\ IsOpen(State, WsConnection(event.mt))

\* C7: when a segment's current connection reaches Open, exactly one
\* SUBSCRIBE frame is sent on it and its params are the streams of the symbols
\* watched for the segment at that moment.
C7_OpenSubscribesCurrentWatchList ==
  [][\A i \in DOMAIN sockets :
       (Opens(i) /\ i = WsConnection(sockets[i].mt)
          /\ SymbolsOf(watchedSymbols, sockets[i].mt) # <<>>)
        => sockets'[i].sent =
             <<SubscribeFrame(SymbolsOf(watchedSymbols, sockets[i].mt), requestId)>>]_vars

C10_NothingAfterShutdown ==
  /\ [](isQuitting => \A t \in DOMAIN timers : ~timers[t].pending)
  /\ [][isQuitting => (event'.op # "retry" /\ Len(sockets') = Len(sockets))]_vars

\* C11: shutdown (close-app or the tray's Exit) sends close(1000) to every
\* socket that is Connecting or Open when it starts, so that once the
\* quitting flag is set no socket is Connecting or Open.
C11_ShutdownClosesEveryLiveConnection ==
  /\ [][event'.op \in {"close-app", "tray-exit"}
          => \A i \in DOMAIN sockets :
               sockets[i].readyState \in {"CONNECTING", "OPEN"}
                 => sockets'[i].readyState = "CLOSING"]_vars
  /\ [](isQuitting => \A i \in DOMAIN sockets :
                         sockets[i].readyState \notin {"CONNECTING", "OPEN"})

\* C12: reconnect-websocket, for each segment with a watched symbol, closes
\* the segment's live connection and creates a new one that becomes the
\* segment's connection; when that new connection opens (nothing but socket
\* events having happened to the segment since) it is still the segment's
\* connection and the one SUBSCRIBE for the segment's watched symbols is sent
\* on it, whether or not the old connection's close event came first.
C12_ReconnectClosesAndReopens ==
  /\ [][event'.op = "reconnect-websocket"
          => \A marketType \in MarketTypes :
               SymbolsOf(watchedSymbols, marketType) # <<>>
                 => /\ \A i \in LiveSockets(marketType) :
                         i = WsConnection(marketType) => sockets'[i].readyState = "CLOSING"
                    /\ \E j \in DOMAIN sockets' \ DOMAIN sockets :
                         /\ sockets'[j].mt = marketType
                         /\ sockets'[j].readyState = "CONNECTING"
                         /\ j = (IF marketType = "PERP" THEN wsPerpConnection'
                                                        ELSE wsSpotConnection')]_vars
  /\ [][\A i \in DOMAIN sockets :
          (/\ Opens(i) /\ sockets[i].byReconnect /\ ~isQuitting
           /\ \A j \in DOMAIN sockets : sockets[j].mt = sockets[i].mt => j <= i
           /\ SymbolsOf(watchedSymbols, sockets[i].mt) = sockets[i].symbols)
            => /\ i = (IF sockets[i].mt = "PERP" THEN wsPerpConnection'
                                                 ELSE wsSpotConnection')
               /\ sockets'[i].sent = <<SubscribeFrame(sockets[i].symbols, requestId)>>]_vars

\* add-symbol has just returned true and created socket i for the symbol's
\* segment, which had no Open connection
AddedWithoutOpenConnection(i, symbol) ==
  /\ event.op = "add-symbol" /\ event.ret /\ event.sym = symbol
  /\ i = Len(sockets) /\ i = WsConnection(event.mt)
  /\ sockets[i].readyState = "CONNECTING"

\* a SUBSCRIBE naming the symbol's stream has been sent on socket i or on a
\* later socket of its segment
SubscribedSince(i, symbol) ==
  \E j \in DOMAIN sockets :
    /\ j >= i /\ sockets[j].mt = getMarketType(ToUpperCase(symbol))
    /\ \E k \in DOMAIN sockets[j].sent :
         /\ sockets[j].sent[k].method = "SUBSCRIBE"
         /\ getStreamName(ToUpperCase(symbol)) \in Range(sockets[j].sent[k].params)

\* C13: after add-symbol returned true while the segment had no Open
\* connection, a SUBSCRIBE naming the symbol's stream is eventually sent on a
\* connection of the segment, unless the symbol is removed, the app quits, or
\* a connection made since then fails or is closed (up to MaxRequestId
\* requests).
C13_AddedSymbolEventuallySubscribed ==
  \A i \in 1..MaxSockets : \A symbol \in SpotTokens :
    [](AddedWithoutOpenConnection(i, symbol)
         => <>(\/ SubscribedSince(i, symbol)
               \/ ToUpperCase(symbol) \notin Range(watchedSymbols)
               \/ isQuitting
               \/ \E j \in DOMAIN sockets :
                    j >= i /\ sockets[j].mt = getMarketType(ToUpperCase(symbol))
                           /\ sockets[j].readyState \in {"CLOSING", "CLOSED"}
               \/ requestId > MaxRequestId))

\* a ticker frame: event type 24hrTicker with a symbol and a last price
IsTickerFrame(data) ==
  data.json = "object" /\ data.e = <<"24hrTicker">> /\ data.s # <<>> /\ data.c # <<>>

\* C14: a ticker frame received on the perpetual segment is forwarded with
\* the wire symbol followed by PERP as its symbol, one received on the spot
\* segment with the wire symbol itself.
C14_PerpSymbolCarriesMarker ==
  (event.op = "message" /\ IsTickerFrame(event.data) /\ ~isQuitting)
    => /\ Len(event.priceUpdates) = 1
       /\ event.priceUpdates[1].symbol =
            (IF event.mt = "PERP" THEN event.data.s[1] \o <<"P", "E", "R", "P">>
                                  ELSE event.data.s[1])

\* C14 witness: the frame with wire symbol BTCUSDT arrived on the perpetual
\* connection and was forwarded as BTCUSDTPERP.
C14_Witness ==
  /\ event.op = "message" /\ event.mt = "PERP" /\ event.data = TickerFrame
  /\ event.priceUpdates # <<>>
  /\ event.priceUpdates[1].symbol = BTCUSDTPERP

\* the elements two lists share come in the same order in both
SameOrder(a, b) ==
  SelectSeq(a, LAMBDA x : x \in Range(b)) = SelectSeq(b, LAMBDA x : x \in Range(a))

C16_OneRecordPerTickerFrame ==
  (event.op = "message" /\ ~isQuitting)
    => IF IsTickerFrame(event.data)
       THEN /\ Len(event.priceUpdates) = 1
            /\ event.priceUpdates[1].data.marketType = event.mt
            /\ event.priceUpdates[1].data.priceChangePercent =
                 (IF event.data.P = <<>> THEN <<"0", ".", "0", "0">> ELSE event.data.P[1])
       ELSE event.priceUpdates = <<>>

\* C16 witness: a ticker frame without percent change was forwarded with
\* "0.00".
C16_Witness ==
  /\ event.op = "message" /\ event.data = TickerFrameNoPercent
  /\ Len(event.priceUpdates) = 1
  /\ event.priceUpdates[1].data.priceChangePercent = <<"0", ".", "0", "0">>

\* C17: a frame that is not JSON makes the handler forward nothing and
\* return normally, and changes no socket, reference, timer, request id or
\* watched symbol; a ticker frame that comes right after it is forwarded.
C17_UndecodableFrameDropped ==
  /\ [][(event'.op = "message" /\ event'.data.json = "invalid")
          => /\ event'.priceUpdates = <<>>
             /\ event'.ret
             /\ UNCHANGED <<watchedSymbols, wsSpotConnection, wsPerpConnection, isQuitting,
                            reconnectTimeout, perpReconnectTimeout, requestId, sockets,
                            timers>>]_vars
  /\ [][(/\ event.op = "message" /\ event.data.json = "invalid"
          /\ event'.op = "message" /\ IsTickerFrame(event'.data) /\ ~isQuitting)
          => Len(event'.priceUpdates) = 1]_vars

\* C17 witness: a frame that is not JSON has just been dropped on the
\* segment's Open connection.
C17_Witness ==
  /\ event.op = "message" /\ event.data = NotJson /\ event.ret
  /\ event.priceUpdates = <<>>
  /\ IsOpen(State, WsConnection(event.mt))

\* C18: normalizing a normalized token changes nothing, for every non-empty
\* token of at most MaxTokenPieces pieces.
C18_NormalizeIdempotent ==
  event.op = "normalizeSymbol" => normalizeSymbol(event.out) = event.out

\* C18 witness: btc_usdt was normalized to BTCUSDT.
C18_Witness ==
  /\ event.op = "normalizeSymbol"
  /\ event.sym = <<"b", "t", "c", "_", "u", "s", "d", "t">>
  /\ event.out = BTCUSDT

\* C19: the stream name and the market type of a token are those of its
\* normalized form.
C19_StreamNameOfNormalizedSymbol ==
  event.op = "getStreamName"
    => /\ event.out = getStreamName(normalizeSymbol(event.sym))
       /\ event.mt = getMarketType(normalizeSymbol(event.sym))

\* s ends with suffix
EndsWith(s, suffix) ==
  Len(s) >= Len(suffix) /\ SubSeq(s, Len(s) - Len(suffix) + 1, Len(s)) = suffix

\* C20: a token is classified PERP exactly when its normalized form ends
\* with PERP, and the stream name of a token classified SPOT is its
\* lower-cased normalized form followed by @ticker.
C20_PerpBySuffix ==
  event.op \in {"getMarketType", "getStreamName"}
    => /\ event.mt = "PERP" <=> EndsWith(normalizeSymbol(event.sym), <<"P", "E", "R", "P">>)
       /\ (event.op = "getStreamName"
            /\ ~EndsWith(normalizeSymbol(event.sym), <<"P", "E", "R", "P">>))
             => event.out = ToLowerCase(normalizeSymbol(event.sym))
                              \o <<"@", "t", "i", "c", "k", "e", "r">>

\* a normalized symbol of the perpetual segment: a non-empty base, the quote
\* USDT and the marker PERP
IsPerpSymbol(symbol) ==
  /\ symbol = normalizeSymbol(symbol)
  /\ Len(symbol) > 8
  /\ EndsWith(symbol, <<"U", "S", "D", "T", "P", "E", "R", "P">>)

\* C21: the stream name of a perpetual symbol base+USDT+PERP is the
\* lower-cased base+USDT followed by @ticker, without the marker, and it is
\* the stream name of the spot symbol base+USDT.
C21_PerpStreamNameWithoutMarker ==
  (event.op = "getStreamName" /\ IsPerpSymbol(event.sym))
    => LET pair == SubSeq(event.sym, 1, Len(event.sym) - 4)
       IN /\ event.out = ToLowerCase(pair) \o <<"@", "t", "i", "c", "k", "e", "r">>
          /\ event.out = getStreamName(pair)

\* C22: add-symbol with the empty token fails and changes nothing: the
\* watch-list, the connections and timers stay as they are and no request is
\* sent.
C22_EmptyTokenRejected ==
  [][(event'.op = "add-symbol" /\ event'.sym = <<>>)
       => /\ ~event'.ret
          /\ UNCHANGED <<watchedSymbols, wsSpotConnection, wsPerpConnection,
                         reconnectTimeout, perpReconnectTimeout, requestId, sockets,
                         timers>>]_vars

\* the normalized forms of the watched symbols
NormalizedWatched == {normalizeSymbol(watchedSymbols[k]) : k \in DOMAIN watchedSymbols}

\* C23: add-symbol of a token whose normalized form is that of a watched
\* symbol returns false and inserts nothing, and no two entries of the
\* watch-list have the same normalized form.
C23_AddComparesNormalizedForms ==
  /\ [][(event'.op = "add-symbol" /\ normalizeSymbol(event'.sym) \in NormalizedWatched)
          => ~event'.ret /\ watchedSymbols' = watchedSymbols]_vars
  /\ [](\A j, k \in DOMAIN watchedSymbols :
          j # k => normalizeSymbol(watchedSymbols[j]) # normalizeSymbol(watchedSymbols[k]))

\* the list without its element k
Without(seq, k) ==
  [j \in 1..(Len(seq) - 1) |-> IF j < k THEN seq[j] ELSE seq[j + 1]]

\* C24: no entry occurs twice in the watch-list; a successful add puts the
\* added symbol after the entries there were, a successful remove takes out
\* the one entry of that symbol and leaves the others in their order, a
\* refused add or remove leaves the list alone, and get-watched-symbols
\* returns the list as it is.
C24_WatchListIsOrderedSet ==
  /\ [](\A j, k \in DOMAIN watchedSymbols : j # k => watchedSymbols[j] # watchedSymbols[k])
  /\ [][/\ ((event'.op = "add-symbol" /\ event'.ret)
               => /\ Len(watchedSymbols') = Len(watchedSymbols) + 1
                  /\ SubSeq(watchedSymbols', 1, Len(watchedSymbols)) = watchedSymbols
                  /\ normalizeSymbol(watchedSymbols'[Len(watchedSymbols')])
                       = normalizeSymbol(event'.sym))
         /\ ((event'.op = "remove-symbol" /\ event'.ret)
               => (\E k \in DOMAIN watchedSymbols :
                     /\ normalizeSymbol(watchedSymbols[k]) = normalizeSymbol(event'.sym)
                     /\ watchedSymbols' = Without(watchedSymbols, k)))
         /\ ((event'.op \in {"add-symbol", "remove-symbol"} /\ ~event'.ret)
               => watchedSymbols' = watchedSymbols)
         /\ (event'.op = "get-watched-symbols"
               => event'.out = watchedSymbols /\ watchedSymbols' = watchedSymbols)]_vars

\* C24 witness: after BTC_USDT was added at the end, ETHUSDT was removed
\* from the middle.
C24_Witness ==
  /\ event.op = "remove-symbol" /\ event.ret /\ event.sym = ethusdt
  /\ watchedSymbols = <<BTCUSDT, <<"B", "T", "C", "_", "U", "S", "D", "T">> >>

\* C25: on every connection the ids of the requests sent on it increase
\* strictly in the order they were sent, so no id is used twice on it.
C25_RequestIdsIncreasePerConnection ==
  \A i \in DOMAIN sockets :
    \A j, k \in DOMAIN sockets[i].sent :
      j < k => sockets[i].sent[j].id < sockets[i].sent[k].id

\* C25 witness: a connection on which a SUBSCRIBE and then an UNSUBSCRIBE
\* were sent.
C25_Witness ==
  \E i \in DOMAIN sockets :
    /\ Len(sockets[i].sent) = 2
    /\ sockets[i].sent[1].method = "SUBSCRIBE"
    /\ sockets[i].sent[2].method = "UNSUBSCRIBE"

\* the UNSUBSCRIBE request for `symbols` with request id `id`
UnsubscribeFrame(symbols, id) ==
  [method |-> "UNSUBSCRIBE", params |-> Streams(symbols), id |-> id]

\* the sockets after `frame` was sent on socket c and nothing else happened
\* to any socket
SentOn(c, frame) == [sockets EXCEPT ![c].sent = Append(@, frame)]

\* socket c is the one connection of the segment being or having been
\* established, and it is open
IsTheOpenConnection(c, marketType) ==
  LiveSockets(marketType) = {c} /\ sockets[c].readyState = "OPEN"

\* C26: an add-symbol of a new symbol while the connection of its segment
\* is open sends one SUBSCRIBE for the stream of that symbol alone on that
\* connection, and no socket is created, closed or replaced.
C26_AddOnOpenSubscribesIncrementally ==
  [][\A c \in DOMAIN sockets :
       (/\ event'.op = "add-symbol" /\ event'.ret
        /\ IsTheOpenConnection(c, event'.mt))
         => LET frame == SubscribeFrame(<<ToUpperCase(event'.sym)>>, requestId)
            IN Len(frame.params) = 1 /\ sockets' = SentOn(c, frame)]_vars

\* C27: a remove-symbol of a watched symbol while the connection of its
\* segment is open sends one UNSUBSCRIBE for the stream of that symbol alone
\* on that connection; when no symbol of the segment remains the connection
\* is then closed, the request having been sent on it, and when another
\* remains the connection stays open.
C27_RemoveOnOpenUnsubscribes ==
  [][\A c \in DOMAIN sockets :
       (/\ event'.op = "remove-symbol" /\ event'.ret
        /\ IsTheOpenConnection(c, event'.mt))
         => LET frame == UnsubscribeFrame(<<ToUpperCase(event'.sym)>>, requestId)
            IN /\ Len(frame.params) = 1
               /\ IF SymbolsOf(watchedSymbols', event'.mt) = <<>>
                  THEN sockets' = [SentOn(c, frame) EXCEPT ![c].readyState = "CLOSING"]
                  ELSE sockets' = SentOn(c, frame)]_vars

\* C28: in every state in which the current connection of a segment is
\* open, no retry timer of that segment is pending.
C28_NoPendingTimerWhileOpen ==
  \A marketType \in MarketTypes :
    IsOpen(State, WsConnection(marketType)) => PendingTimers(marketType) = {}

\* C29: a retry callback that runs while no symbol of its segment is
\* watched creates no socket, sends no request and sets no timer: the
\* sockets, the request id and the connection references stay as they are
\* and no timer is added or pending that was not pending before.
C29_RetryWithoutSymbolsIsNoOp ==
  [][(event'.op = "retry" /\ SymbolsOf(watchedSymbols, event'.mt) = <<>>)
       => /\ UNCHANGED <<sockets, requestId, wsSpotConnection, wsPerpConnection,
                         watchedSymbols>>
          /\ Len(timers') = Len(timers)
          /\ \A marketType \in MarketTypes :
               PendingTimersIn(timers', marketType) \subseteq PendingTimers(marketType)]_vars

\* C29 witness: the retry timer of the perpetual segment fired after the
\* last perpetual symbol had been removed.
C29_Witness ==
  /\ event.op = "retry" /\ event.mt = "PERP"
  /\ SymbolsOf(watchedSymbols, "PERP") = <<>>
  /\ \E t \in DOMAIN timers : timers[t].mt = "PERP" /\ ~timers[t].pending

\* C30: the error event of a socket changes nothing: the watch-list, the
\* connection references, the timer handles, the request id, the sockets
\* and the timers are after it what they were before; and a retry timer is
\* set only by a close event.
C30_ErrorEventTriggersNothing ==
  [][/\ (event'.op = "error"
           => UNCHANGED <<watchedSymbols, wsSpotConnection, wsPerpConnection,
                          reconnectTimeout, perpReconnectTimeout, requestId,
                          sockets, timers, isQuitting>>)
     /\ (Len(timers') > Len(timers) => event'.op = "close")]_vars

\* C30 witness: the error handler of a spot socket still connecting or open
\* has run.
C30_Witness ==
  /\ event.op = "error" /\ event.mt = "SPOT"
  /\ \E i \in DOMAIN sockets :
       sockets[i].mt = "SPOT" /\ sockets[i].readyState \in {"CONNECTING", "OPEN"}

\* sockets of a segment, among `socks`, whose connection is being or has
\* been established
LiveSocketsIn(socks, marketType) ==
  {i \in DOMAIN socks : socks[i].mt = marketType
                        /\ socks[i].readyState \in {"CONNECTING", "OPEN"}}

\* C31: an add-symbol or remove-symbol that changes the watch-list while no
\* connection of the symbol's segment is open sends no frame on any socket
\* and uses no request id, returns its result, and ensures a connection:
\* when a symbol of the segment is watched after it, a connection of the
\* segment is being or has been established.
C31_NotReadyFailsSilently ==
  [][(/\ event'.op \in {"add-symbol", "remove-symbol"} /\ event'.ret
      /\ \A i \in DOMAIN sockets :
           sockets[i].mt = event'.mt => sockets[i].readyState # "OPEN")
       => /\ requestId' = requestId
          /\ \A i \in DOMAIN sockets' :
               sockets'[i].sent = IF i \in DOMAIN sockets THEN sockets[i].sent ELSE <<>>
          /\ event'.ret \in BOOLEAN
          /\ (SymbolsOf(watchedSymbols', event'.mt) # <<>>
                => LiveSocketsIn(sockets', event'.mt) # {})]_vars

\* C32: after the close event, with a code other than 1000, of the spot
\* socket created last (no socket created before it is closed, so it is the
\* one this event closed), a further spot socket is eventually created,
\* unless the app quits or no spot symbol is watched any more (up to
\* MaxSockets sockets, of which MaxLiveSockets are not closed).
C32_UnexpectedClosureEventuallyRetried ==
  \A n \in 1..MaxSockets :
    []((/\ event.op = "close" /\ event.mt = "SPOT" /\ event.code # IntentionalCode
        /\ Len(sockets) = n
        /\ sockets[n].mt = "SPOT" /\ sockets[n].readyState = "CLOSED"
        /\ \A j \in 1..(n - 1) : sockets[j].readyState # "CLOSED")
         => <>(\/ \E j \in DOMAIN sockets : j > n /\ sockets[j].mt = "SPOT"
               \/ isQuitting
               \/ SymbolsOf(watchedSymbols, "SPOT") = <<>>
               \/ Len(sockets) >= MaxSockets
               \/ Cardinality({j \in DOMAIN sockets : sockets[j].readyState # "CLOSED"})
                    >= MaxLiveSockets))

\* C33: startup and reconnect-websocket create a socket only for a segment
\* that has a watched symbol, and in every state between two handlers a
\* segment without a watched symbol has no socket that is connecting or
\* open.
C33_ConnectionsOnlyForWatchedSegments ==
  /\ [][event'.op \in {"startup", "reconnect-websocket"}
          => \A i \in DOMAIN sockets' \ DOMAIN sockets :
               SymbolsOf(watchedSymbols, sockets'[i].mt) # <<>>]_vars
  /\ [](\A marketType \in MarketTypes :
          SymbolsOf(watchedSymbols, marketType) = <<>> => LiveSockets(marketType) = {})

\* a normalized symbol of the spot segment: a non-empty base and the quote
\* USDT
IsSpotSymbol(symbol) ==
  /\ symbol = normalizeSymbol(symbol)
  /\ Len(symbol) > 4
  /\ EndsWith(symbol, <<"U", "S", "D", "T">>)

\* C34: the base asset of a symbol base+USDT is base, and the base asset of
\* a symbol base+USDT+PERP is base, whatever the non-empty base contains.
C34_BaseAssetIsBase ==
  event.op = "getBaseAsset"
    => /\ IsSpotSymbol(event.sym)
            => event.out = SubSeq(event.sym, 1, Len(event.sym) - 4)
       /\ IsPerpSymbol(event.sym)
            => event.out = SubSeq(event.sym, 1, Len(event.sym) - 8)

\* socket i delivers its close event in this step
Closes(i) == sockets[i].readyState # "CLOSED" /\ sockets'[i].readyState = "CLOSED"

\* C35: the close event of a socket that is not the current connection of
\* its segment leaves both connection references as they are and sets no
\* timer.
C35_StaleCloseLeavesCurrentConnection ==
  [][\A i \in DOMAIN sockets :
       (event'.op = "close" /\ Closes(i) /\ WsConnection(sockets[i].mt) # i)
         => /\ UNCHANGED <<wsSpotConnection, wsPerpConnection>>
            /\ Len(timers') = Len(timers)]_vars

\* a SUBSCRIBE naming the stream of `symbol` was sent on a socket of the
\* segment that can still deliver frames
WasSubscribed(symbol, marketType) ==
  \E i \in DOMAIN sockets :
    /\ sockets[i].mt = marketType /\ sockets[i].readyState \in {"OPEN", "CLOSING"}
    /\ \E k \in DOMAIN sockets[i].sent :
         /\ sockets[i].sent[k].method = "SUBSCRIBE"
         /\ getStreamName(symbol) \in Range(sockets[i].sent[k].params)

\* C36: every record sent to the window is for a symbol that is in the
\* watch-list when it is sent (for the frames a venue can send: those of a
\* stream that a socket of the segment was asked to subscribe).
C36_PushedSymbolIsWatched ==
  \A k \in DOMAIN event.priceUpdates :
    (event.op = "message" /\ WasSubscribed(event.priceUpdates[k].symbol, event.mt))
      => event.priceUpdates[k].symbol \in Range(watchedSymbols)

\* the segment that is not `marketType`
OtherSegment(marketType) == IF marketType = "PERP" THEN "SPOT" ELSE "PERP"

\* the events of one segment: a symbol of it added or removed, and what its
\* sockets and timers deliver
SegmentEvents ==
  {"add-symbol", "remove-symbol", "open", "message", "error", "close", "retry"}

\* C37: an event of one segment leaves the other segment alone: its
\* connection reference and timer handle, its sockets with their state and
\* the frames sent on them, and its timers are unchanged, and no socket and
\* no timer of the other segment is created.
C37_SegmentsIndependent ==
  [][event'.op \in SegmentEvents
       => LET other == OtherSegment(event'.mt)
          IN /\ IF other = "PERP"
                THEN UNCHANGED <<wsPerpConnection, perpReconnectTimeout>>
                ELSE UNCHANGED <<wsSpotConnection, reconnectTimeout>>
             /\ \A i \in DOMAIN sockets' :
                  IF i \in DOMAIN sockets
                  THEN sockets[i].mt = other => sockets'[i] = sockets[i]
                  ELSE sockets'[i].mt # other
             /\ \A t \in DOMAIN timers' :
                  IF t \in DOMAIN timers
                  THEN timers[t].mt = other => timers'[t] = timers[t]
                  ELSE timers'[t].mt # other]_vars

\* C37 witness: a perpetual socket closed unexpectedly while the spot
\* connection was open: the spot connection is still current and open.
C37_Witness ==
  /\ event.op = "close" /\ event.mt = "PERP" /\ event.code = AbnormalCode
  /\ IsOpen(State, wsSpotConnection)
  /\ perpReconnectTimeout # Null

====
